---- MODULE Spec2Model ----
\* A model of pummeler/featurize.py: the feature encoder (get_dummies,
\* _num_feats), the embedding primitives (linear_embedding, rff_embedding) and
\* the streaming driver get_embeddings.
EXTENDS Integers, Sequences, FiniteSets, TLC

\* ---------------------------------------------------------------------------
\* Bounds of the model.
\* ---------------------------------------------------------------------------
\* Largest raw value of a real feature in an encoded record.
MaxVal == 2
\* Largest mean of a real feature in a StatsBundle.
MaxMean == 1
\* Largest standard deviation of a real feature in a StatsBundle.
MaxStd == 2
\* Largest number of records in a file.
MaxRecs == 3
\* Largest replicate weight (PWGTP) of a record.
MaxWt == 2
\* the calls of a seeded generator the model records
MaxDraws == 2

\* ---------------------------------------------------------------------------
\* float64 values: exact rationals n/d (d > 0, lowest terms) and the three
\* IEEE specials.  Rounding is not modelled; NaN and the infinities are.
\* ---------------------------------------------------------------------------
Abs(i) == IF i < 0 THEN -i ELSE i

RECURSIVE GCD(_, _)
GCD(a, b) == IF b = 0 THEN a ELSE GCD(b, a % b)

Fin(n, d) ==
    LET s == IF d < 0 THEN -1 ELSE 1
        g == GCD(Abs(n), Abs(d))
    IN  [k |-> "fin", n |-> (s * n) \div g, d |-> (s * d) \div g]

NaN  == [k |-> "nan",  n |-> 0, d |-> 1]
PInf == [k |-> "pinf", n |-> 0, d |-> 1]
NInf == [k |-> "ninf", n |-> 0, d |-> 1]
Zero == Fin(0, 1)
One  == Fin(1, 1)
Int2X(i) == Fin(i, 1)

IsNaN(x)    == x.k = "nan"
IsFinite(x) == x.k = "fin"
IsInf(x)    == x.k \in {"pinf", "ninf"}

XNeg(x) ==
    CASE x.k = "fin"  -> Fin(-x.n, x.d)
      [] x.k = "pinf" -> NInf
      [] x.k = "ninf" -> PInf
      [] OTHER        -> NaN

XAdd(a, b) ==
    CASE IsNaN(a) \/ IsNaN(b)       -> NaN
      [] IsInf(a) /\ IsInf(b)       -> IF a.k = b.k THEN a ELSE NaN
      [] IsInf(a)                   -> a
      [] IsInf(b)                   -> b
      [] OTHER                      -> Fin(a.n * b.d + b.n * a.d, a.d * b.d)

XSub(a, b) == XAdd(a, XNeg(b))

\* The sign of a value that is not NaN: -1, 0 or 1.
Sgn(x) ==
    CASE x.k = "pinf" -> 1
      [] x.k = "ninf" -> -1
      [] OTHER        -> IF x.n > 0 THEN 1 ELSE IF x.n < 0 THEN -1 ELSE 0

XMul(a, b) ==
    CASE IsNaN(a) \/ IsNaN(b)       -> NaN
      [] IsInf(a) \/ IsInf(b)       ->
            IF Sgn(a) * Sgn(b) = 0 THEN NaN
            ELSE IF Sgn(a) * Sgn(b) > 0 THEN PInf ELSE NInf
      [] OTHER                      -> Fin(a.n * b.n, a.d * b.d)

\* IEEE division; a zero divisor is +0 (no negative zero arises in the program:
\* divisors are standard deviations and weight sums).
XDiv(a, b) ==
    CASE IsNaN(a) \/ IsNaN(b)       -> NaN
      [] IsInf(a) /\ IsInf(b)       -> NaN
      [] IsInf(a)                   -> IF Sgn(b) >= 0 THEN a ELSE XNeg(a)
      [] IsInf(b)                   -> Zero
      [] b.n = 0                    ->
            IF a.n = 0 THEN NaN ELSE IF a.n > 0 THEN PInf ELSE NInf
      [] OTHER                      -> Fin(a.n * b.d, a.d * b.n)

\* ---------------------------------------------------------------------------
\* Small helpers on sequences.
\* ---------------------------------------------------------------------------
Range(s) == {s[i] : i \in DOMAIN s}

RECURSIVE SumSeq(_)
SumSeq(s) == IF s = <<>> THEN 0 ELSE Head(s) + SumSeq(Tail(s))

RECURSIVE XSumSeq(_)
XSumSeq(s) == IF s = <<>> THEN Zero ELSE XAdd(Head(s), XSumSeq(Tail(s)))

RECURSIVE Flatten(_)
Flatten(ss) == IF ss = <<>> THEN <<>> ELSE Head(ss) \o Flatten(Tail(ss))

\* Position of v in the sequence s (0-based), or -1: the code of a value in a
\* pandas Categorical with categories s.
IndexOf(s, v) ==
    IF v \in Range(s) THEN (CHOOSE i \in DOMAIN s : s[i] = v) - 1 ELSE -1

\* ---------------------------------------------------------------------------
\* SchemaInfo: VERSIONS[stats['version']] of pummeler/reader.py.
\* ---------------------------------------------------------------------------
real_feats     == <<"AGEP", "PINCP">>
discrete_feats == <<"SEX">>
alloc_flags    == <<"FAGEP">>
AllFeats == Range(real_feats) \cup Range(discrete_feats) \cup Range(alloc_flags)

\* ---------------------------------------------------------------------------
\* StatsBundle.  A pandas Series is a sequence of <<label, value>> pairs.
\*   real_means, real_stds : Series over the real features
\*   value_counts          : feature -> Series category -> count
\*   n_total               : number of records the stats were built from
\* ---------------------------------------------------------------------------
Index(series)  == [i \in DOMAIN series |-> series[i][1]]
Values(series) == [i \in DOMAIN series |-> series[i][2]]

\* The category of a missing value, and a category no stats ever saw.
Missing == "nan"
Unseen  == "z"

\* ---------------------------------------------------------------------------
\* _num_feats(stats, skip_feats)
\* ---------------------------------------------------------------------------
HasOverflow(stats, k) ==
    SumSeq(Values(stats.value_counts[k])) < stats.n_total

_num_feats(stats, skip_feats) ==
    LET n0 == Cardinality(Range(Index(stats.real_means)) \ skip_feats)
        w(k) == IF k \in skip_feats THEN 0
                ELSE Len(stats.value_counts[k])
                     + (IF HasOverflow(stats, k) THEN 1 ELSE 0)
        keys == DOMAIN stats.value_counts
        RECURSIVE Acc(_)
        Acc(S) == IF S = {} THEN 0
                  ELSE LET k == CHOOSE x \in S : TRUE IN w(k) + Acc(S \ {k})
    IN  n0 + Acc(keys)

\* ---------------------------------------------------------------------------
\* get_dummies(df, stats, num_feats, ret_df, skip_feats)
\* df is a sequence of records (rows); a real field holds a float64 value, a
\* discrete field a category.  num_feats is <<>> for None, else <<n>>.
\* The result is [status, out, feat_names]: status "ok" or the exception
\* raised, out the filled matrix (a sequence of rows), feat_names the column
\* labels of the returned DataFrame (<<>> when ret_df is false).
\* ---------------------------------------------------------------------------
\* real_feats = [f for f in info['real_feats'] if f not in skip_feats]
KeptRealFeats(skip_feats) ==
    SelectSeq(real_feats, LAMBDA f : f \notin skip_feats)

\* the features the loop over info['discrete_feats'] + info['alloc_flags'] keeps
KeptDiscreteFeats(skip_feats) ==
    SelectSeq(discrete_feats \o alloc_flags, LAMBDA f : f \notin skip_feats)

\* numpy broadcasting of a length-r vector into the columns of an (n, k)
\* array, in place: the columns must agree, or the vector has one entry.
Broadcastable(k, r) == r = k \/ r = 1

BroadcastAt(vec, j) == IF Len(vec) = 1 THEN vec[1] ELSE vec[j]

\* reals[np.isnan(reals)] = 0
NanToZero(x) == IF IsNaN(x) THEN Zero ELSE x

\* One row of the real columns: (value - mean) / std, NaN replaced by 0.
StandardizeRow(row, stats, skip_feats) ==
    LET rf == KeptRealFeats(skip_feats)
    IN  [j \in 1..Len(rf) |->
            NanToZero(XDiv(XSub(row[rf[j]],
                                BroadcastAt(Values(stats.real_means), j)),
                           BroadcastAt(Values(stats.real_stds), j)))]

\* np.eye(n)
Eye(n) == [i \in 1..n |-> [j \in 1..n |-> IF i = j THEN One ELSE Zero]]

\* ndarray.take(c, axis=0) for one index c, mode='raise': a negative index
\* counts from the end, an index outside -n..n-1 raises.
TakeIndex(n, c) == IF c < 0 THEN c + n ELSE c
TakeOk(n, c) == TakeIndex(n, c) \in 0..(n - 1)
Take(a, c) == a[TakeIndex(Len(a), c) + 1]

\* pd.Categorical(df[k], categories=vc.index).codes for one row
CategoricalCode(vc, v) == IndexOf(Index(vc), v)

\* The code after the overflow rewrite, c[c == -1] = n_codes.
DummyCode(stats, k, v) ==
    LET vc == stats.value_counts[k]
        c  == CategoricalCode(vc, v)
    IN  IF HasOverflow(stats, k) /\ c = -1 THEN Len(vc) ELSE c

\* n_codes of feature k after the overflow rewrite.
NCodes(stats, k) ==
    Len(stats.value_counts[k]) + (IF HasOverflow(stats, k) THEN 1 ELSE 0)

\* The one-hot block of feature k for one row.
DummyBlock(stats, k, v) == Take(Eye(NCodes(stats, k)), DummyCode(stats, k, v))

\* feat_names of feature k: '{}_{}'.format(k, v) for v in vc.index, then
\* '{}_nan'.format(k) when the feature has the overflow column.
BlockNames(stats, k) ==
    LET idx == Index(stats.value_counts[k])
    IN  [i \in DOMAIN idx |-> k \o "_" \o idx[i]]
        \o (IF HasOverflow(stats, k) THEN <<k \o "_nan">> ELSE <<>>)

\* start_col after the loop has run over the first m kept discrete features.
RECURSIVE StartCol(_, _, _)
StartCol(stats, skip_feats, m) ==
    IF m = 0 THEN Len(KeptRealFeats(skip_feats))
    ELSE StartCol(stats, skip_feats, m - 1)
         + NCodes(stats, KeptDiscreteFeats(skip_feats)[m])

get_dummies(df, stats, num_feats, ret_df, skip_feats) ==
    LET nf   == IF num_feats = <<>> THEN _num_feats(stats, skip_feats)
                ELSE num_feats[1]
        rf   == KeptRealFeats(skip_feats)
        dk   == KeptDiscreteFeats(skip_feats)
        nk   == Len(dk)
        \* the first discrete feature, if any, whose step raises
        Bad(m) ==
            \/ dk[m] \notin DOMAIN stats.value_counts
            \/ StartCol(stats, skip_feats, m) > nf
            \/ \E r \in DOMAIN df :
                  ~TakeOk(NCodes(stats, dk[m]), DummyCode(stats, dk[m], df[r][dk[m]]))
        bad  == {m \in 1..nk : Bad(m)}
        first == CHOOSE m \in bad : \A o \in bad : m <= o
        status ==
            IF Len(rf) > nf THEN "ValueError"
            ELSE IF ~Broadcastable(Len(rf), Len(stats.real_means))
                 THEN "ValueError"
            ELSE IF ~Broadcastable(Len(rf), Len(stats.real_stds))
                 THEN "ValueError"
            ELSE IF bad # {} THEN
                 (IF dk[first] \notin DOMAIN stats.value_counts THEN "KeyError"
                  ELSE IF StartCol(stats, skip_feats, first) > nf THEN "ValueError"
                  ELSE "IndexError")
            ELSE IF StartCol(stats, skip_feats, nk) # nf THEN "AssertionError"
            ELSE "ok"
        Row(row) ==
            StandardizeRow(row, stats, skip_feats)
            \o Flatten([m \in 1..nk |-> DummyBlock(stats, dk[m], row[dk[m]])])
    IN  IF status # "ok"
        THEN [status |-> status, out |-> <<>>, feat_names |-> <<>>]
        ELSE [status |-> "ok",
              out |-> [r \in DOMAIN df |-> Row(df[r])],
              feat_names |->
                  IF ret_df
                  THEN rf \o Flatten([m \in 1..nk |-> BlockNames(stats, dk[m])])
                  ELSE <<>>]

\* ---------------------------------------------------------------------------
\* Embedding primitives.  feats is a sequence of rows (n x f), wts a sequence
\* of integer weight rows (q x n), freqs a sequence of rows (f x D).
\* ---------------------------------------------------------------------------
\* np.sin / np.cos of an angle.  A finite angle is looked up in a table of
\* thousandths for whole radians; every angle the model produces is whole.
SinTable == <<841, 909, 141, -757, -959, -279, 657, 989,
             412, -544, -1000, -537, 420, 991, 650, -288>>
CosTable == <<540, -416, -990, -654, 284, 960, 754, -146,
             -911, -839, 4, 844, 907, 137, -760, -958>>

Sin(x) ==
    CASE ~IsFinite(x)          -> NaN
      [] x.d = 1 /\ x.n = 0    -> Zero
      [] x.d = 1 /\ x.n > 0    -> Fin(SinTable[x.n], 1000)
      [] x.d = 1 /\ x.n < 0    -> Fin(-SinTable[-x.n], 1000)

Cos(x) ==
    CASE ~IsFinite(x)          -> NaN
      [] x.d = 1 /\ x.n = 0    -> One
      [] x.d = 1 /\ x.n # 0    -> Fin(CosTable[Abs(x.n)], 1000)

\* wts.sum(axis=1)
WeightSums(wts) == [i \in DOMAIN wts |-> SumSeq(wts[i])]

\* feats.shape[1], freqs.shape[1]
NCols(m) == IF m = <<>> THEN 0 ELSE Len(m[1])

\* np.dot(cols.T, wts.T) followed by the guarded division
\*     w = wts.sum(axis=1); nz = w != 0; out[:, nz] /= w[nz]
\* for a matrix cols of one row per record.
WeightedMean(cols, wts) ==
    LET w == WeightSums(wts)
        dot == [j \in 1..NCols(cols) |->
                   [i \in DOMAIN wts |->
                       XSumSeq([r \in DOMAIN cols |->
                                   XMul(cols[r][j], Int2X(wts[i][r]))])]]
    IN  [j \in 1..NCols(cols) |->
            [i \in DOMAIN wts |->
                IF w[i] # 0 THEN XDiv(dot[j][i], Int2X(w[i])) ELSE dot[j][i]]]

linear_embedding(feats, wts) == WeightedMean(feats, wts)

\* angles = np.dot(feats, freqs)
Angles(feats, freqs) ==
    [r \in DOMAIN feats |->
        [j \in 1..NCols(freqs) |->
            XSumSeq([f \in DOMAIN freqs |-> XMul(feats[r][f], freqs[f][j])])]]

rff_embedding(feats, wts, freqs) ==
    LET angles == Angles(feats, freqs)
        sin_angles == [r \in DOMAIN angles |->
                          [j \in DOMAIN angles[r] |-> Sin(angles[r][j])]]
        cos_angles == [r \in DOMAIN angles |->
                          [j \in DOMAIN angles[r] |-> Cos(angles[r][j])]]
    IN  WeightedMean(sin_angles, wts) \o WeightedMean(cos_angles, wts)

\* ---------------------------------------------------------------------------
\* pick_gaussian_bandwidth(stats, skip_feats): the square root of the median
\* of the pairwise squared distances of the encoded reference sample.  The
\* result is [status, bandwidth]; a bandwidth is kept as the value under the
\* square root.  euclidean_distances rejects a matrix without a row, without
\* a column, or with a non-finite entry.
\* ---------------------------------------------------------------------------
XLess(a, b) == a.n * b.d < b.n * a.d

RECURSIVE Insert(_, _)
Insert(x, s) ==
    IF s = <<>> THEN <<x>>
    ELSE IF XLess(Head(s), x) THEN <<Head(s)>> \o Insert(x, Tail(s))
    ELSE <<x>> \o s

RECURSIVE Sort(_)
Sort(s) == IF s = <<>> THEN <<>> ELSE Insert(Head(s), Sort(Tail(s)))

\* np.median of a sequence of finite values (NaN for an empty one)
Median(s) ==
    LET t == Sort(s)
        n == Len(s)
    IN  IF n = 0 THEN NaN
        ELSE IF n % 2 = 1 THEN t[(n + 1) \div 2]
        ELSE XDiv(XAdd(t[n \div 2], t[n \div 2 + 1]), Int2X(2))

SquaredDistance(a, b) ==
    XSumSeq([j \in DOMAIN a |-> XMul(XSub(a[j], b[j]), XSub(a[j], b[j]))])

\* D2[np.triu_indices_from(D2, k=1)]
UpperTriangle(samp) ==
    LET n == Len(samp)
        RECURSIVE Pairs(_, _)
        Pairs(i, j) ==
            IF i >= n THEN <<>>
            ELSE IF j > n THEN Pairs(i + 1, i + 2)
            ELSE <<SquaredDistance(samp[i], samp[j])>> \o Pairs(i, j + 1)
    IN  Pairs(1, 2)

pick_gaussian_bandwidth(stats, skip_feats) ==
    LET enc == get_dummies(stats.sample, stats, <<>>, FALSE, skip_feats)
        samp == enc.out
    IN  IF enc.status # "ok"
        THEN [status |-> enc.status, bandwidth |-> <<>>]
        ELSE IF samp = <<>> \/ NCols(samp) = 0
        THEN [status |-> "ValueError", bandwidth |-> <<>>]
        ELSE IF \E r \in DOMAIN samp : \E j \in DOMAIN samp[r] : ~IsFinite(samp[r][j])
        THEN [status |-> "ValueError", bandwidth |-> <<>>]
        ELSE [status |-> "ok",
              bandwidth |-> <<[sqrt_of |-> Median(UpperTriangle(samp))]>>]

\* ---------------------------------------------------------------------------
\* pick_rff_freqs(n_freqs, bandwidth, seed, n_feats, orthogonal, stats,
\* skip_feats): a random n_feats x n_freqs matrix.
\* The generator is not computed.  A stream is the sequence of what its calls
\* return, each call's array picked among Samples arrays: of the real numbers
\* a draw can take, the model offers those that keep every frequency a whole
\* number.  The stream of a seeded generator is fixed by the seed; which one
\* it is the model leaves open (mtrand, chosen at the start and never
\* changed).  The global generator is in any state when the call starts.
\* ---------------------------------------------------------------------------
VARIABLE mtrand

\* the arrays offered for one call of the generator
Samples == {0, 1}
\* the seeds of the model
Seeds == {1, 3}
\* the streams of k calls
Streams(k) == [1..k -> Samples]

\* rs = np.random.mtrand._rand if seed is None else np.random.RandomState(seed)
\* as the streams its first k calls can return; a seeded generator is
\* recorded for MaxDraws calls
Generators(seed, k) ==
    IF seed = <<>> THEN Streams(k)
    ELSE {[i \in 1..k |-> mtrand[seed[1]][i]]}

\* the bandwidth sqrt(X) is NaN
NoRoot(X) == IsNaN(X) \/ X.k = "ninf" \/ (X.k = "fin" /\ X.n < 0)

\* Q, _ = qr(rs.normal(0, 1, size=(n, n))): an orthogonal n x n matrix.  The
\* two offered are (2/n) J - I, J the all-ones matrix (the drawn matrix has
\* equal columns below its first row), and I (it is upper triangular).
OrthogonalDraw(n, sample) ==
    [i \in 1..n |-> [j \in 1..n |->
        IF sample = 0
        THEN (IF i = j THEN Fin(2 - n, n) ELSE Fin(2, n))
        ELSE (IF i = j THEN One ELSE Zero)]]

\* S[c] after lines 143-145: sqrt(chisquare(n)) / bandwidth for column c.  A
\* chi-square draw is any positive number; the ones offered are
\* (n m)^2 bandwidth^2 for m in 1..2, which leave the whole number n m.
ChiScale(sample, c, n, bandwidth) ==
    LET X == bandwidth.sqrt_of
    IN  CASE NoRoot(X)  -> NaN
          [] X = Zero   -> PInf
          [] X = PInf   -> Zero
          [] OTHER      -> Int2X(n * (1 + ((sample + c) % 2)))

\* an entry of rs.normal(0, 1 / bandwidth, size=(n_feats, n_freqs)): any
\* number; the ones offered are 1 and -1.
NormalDraw(sample, i, c, bandwidth) ==
    LET X == bandwidth.sqrt_of
        z == Int2X(IF (sample + i + c) % 2 = 0 THEN 1 ELSE -1)
    IN  CASE NoRoot(X)  -> NaN
          [] X = Zero   -> XMul(z, PInf)
          [] X = PInf   -> Zero
          [] OTHER      -> z

\* n_reps = int(np.ceil(n_freqs / n_feats))
Reps(n_freqs, n_feats) == (n_freqs + n_feats - 1) \div n_feats

\* the calls of the generator pick_rff_freqs makes: one without
\* orthogonality (line 132); with it one per block (line 137) and one for
\* the chi-square draws (line 143)
DrawCount(n_freqs, n_feats, orthogonal) ==
    IF ~orthogonal \/ n_feats = 1 THEN 1 ELSE Reps(n_freqs, n_feats) + 1

\* the matrix drawn from the stream r.  Lines 131-132 without orthogonality;
\* lines 134-146 with it: block b has its own Q, drawn by call b, column c is
\* row c - (b-1)*n_feats of the Q of its block b, times S[c], S drawn by the
\* call after the blocks.
FreqDraw(r, n_freqs, bandwidth, n_feats, orthogonal) ==
    IF ~orthogonal \/ n_feats = 1
    THEN [i \in 1..n_feats |->
             [c \in 1..n_freqs |-> NormalDraw(r[1], i, c, bandwidth)]]
    ELSE LET n_reps == Reps(n_freqs, n_feats)
             Q == [b \in 1..n_reps |-> OrthogonalDraw(n_feats, r[b])]
             S == [c \in 1..n_freqs |->
                      ChiScale(r[n_reps + 1], c, n_feats, bandwidth)]
         IN  [i \in 1..n_feats |->
                 [c \in 1..n_freqs |->
                     XMul(Q[((c - 1) \div n_feats) + 1][((c - 1) % n_feats) + 1][i],
                          S[c])]]

\* the matrices pick_rff_freqs can return; n_feats is None (<<>>) or <<n>>.
\* With orthogonal and n_feats = 0 the call fails (n_freqs / n_feats).
pick_rff_freqs(n_freqs, bandwidth, seed, n_feats, orthogonal, st, skip) ==
    LET n == IF n_feats = <<>> THEN _num_feats(st, skip) ELSE n_feats[1]
    IN  IF orthogonal /\ n = 0 THEN {}
        ELSE {FreqDraw(r, n_freqs, bandwidth, n, orthogonal) :
                 r \in Generators(seed, DrawCount(n_freqs, n, orthogonal))}

\* ---------------------------------------------------------------------------
\* Strings are sequences of characters.  The subset queries of the model:
\* ---------------------------------------------------------------------------
\* 'PWGTP > 0', the default of get_embeddings
QWeight == <<"P", "W", "G", "T", "P", " ", ">", " ", "0">>
\* 'AGEP>0'
QAge    == <<"A", "G", "E", "P", ">", "0">>
\* 'SEX=="a"'
QSex    == <<"S", "E", "X", "=", "=", "\"", "a", "\"">>

\* the characters str.isspace() holds for, as far as a string of the model can
\* hold them: space, tab, newline, carriage return, form feed, vertical tab,
\* the separators 1C-1F, next line (85), no-break space (A0), ogham space
\* mark (1680).  (The spaces 2000-200A, 2028, 2029, 202F, 205F and 3000
\* cannot be written in a string of the model.)
WhiteSpace ==
    {" ", "\t", "\n", "\r", "\f", "", "", "", "", "", "", " ",
     " "}

\* str.rstrip()
RECURSIVE RStrip(_)
RStrip(s) ==
    IF s # <<>> /\ s[Len(s)] \in WhiteSpace
    THEN RStrip(SubSeq(s, 1, Len(s) - 1)) ELSE s

\* s[:-1]
DropLast(s) == IF s = <<>> THEN s ELSE SubSeq(s, 1, Len(s) - 1)

\* s.count(ch)
Count(s, ch) == Cardinality({i \in DOMAIN s : s[i] = ch})

\* n_subsets = subsets.rstrip()[:-1].count(',') + 1
CountSubsets(s) == Count(DropLast(RStrip(s)), ",") + 1

\* if n_subsets == 1: subsets += ','
TerminateSubsets(s) == IF CountSubsets(s) = 1 THEN Append(s, ",") ELSE s

\* ---------------------------------------------------------------------------
\* DataFrame.eval of a subset expression (the external query evaluator).  The
\* expression is Python source: a tuple display of comparisons, one trailing
\* comma allowed.  A name is looked up among the columns of the frame.  The
\* result is [status, which]: which a queries x records boolean matrix.
\* The evaluator is modelled on a fragment: comparisons of two operands, each
\* a column, a whole number or a quoted string, at least one of them a column,
\* written with letters, digits, quotes, the comparison operators, commas,
\* spaces and tabs, and closed by line ends.  On that fragment it evaluates,
\* raises SyntaxError where operands and operators do not alternate, or
\* raises UndefinedVariableError.  It is not defined on any other expression.
\* ---------------------------------------------------------------------------
Blanks == {" ", "\t"}
LineEnds == {"\n", "\r"}
Letters ==
    {"A", "B", "C", "D", "E", "F", "G", "H", "I", "J", "K", "L", "M", "N", "O",
     "P", "Q", "R", "S", "T", "U", "V", "W", "X", "Y", "Z", "a", "b", "c", "d",
     "e", "f", "g", "h", "i", "j", "k", "l", "m", "n", "o", "p", "q", "r", "s",
     "t", "u", "v", "w", "x", "y", "z", "_"}
DigitChars == <<"0", "1", "2", "3", "4", "5", "6", "7", "8", "9">>
Digits == Range(DigitChars)
Quotes == {"\"", "'"}
Comparisons == {<<">">>, <<"<">>, <<"=", "=">>, <<">", "=">>, <<"<", "=">>,
                <<"!", "=">>}
\* the characters of the operators
OperatorChars == {">", "<", "=", "!"}
\* the characters a string literal of the fragment holds between its quotes
StringChars ==
    Letters \cup Digits \cup Blanks \cup OperatorChars \cup Quotes \cup {","}
\* words of Python that are no names
Keywords ==
    {"and", "or", "not", "in", "is", "if", "else", "for", "lambda", "True",
     "False", "None", "await", "async", "yield", "as", "def", "del", "try",
     "with", "from", "pass", "elif", "class", "while", "break", "raise",
     "assert", "except", "global", "import", "return", "finally", "continue",
     "nonlocal", "print", "exec"}

\* ''.join(chars)
RECURSIVE Join(_)
Join(chars) == IF chars = <<>> THEN "" ELSE Head(chars) \o Join(Tail(chars))

\* int(chars) of a run of digits
RECURSIVE Number(_)
Number(chars) ==
    IF chars = <<>> THEN 0
    ELSE 10 * Number(DropLast(chars))
         + ((CHOOSE d \in DOMAIN DigitChars :
                 DigitChars[d] = chars[Len(chars)]) - 1)

\* a token: t is "name", "number", "string", "compare", "comma", or "other":
\* the source leaves the fragment here
Token(t, v) == [t |-> t, v |-> v]
OtherToken == Token("other", <<>>)

\* the end of the run of characters of the set S that starts at s[i]
RECURSIVE RunEnd(_, _, _)
RunEnd(s, i, S) ==
    IF i < Len(s) /\ s[i + 1] \in S THEN RunEnd(s, i + 1, S) ELSE i

\* the tokens of s from position i on; started: a token has been read.
\* Spaces and tabs separate tokens and are dropped; the expression may start
\* with spaces and tabs or with line ends, and end with line ends.
\* The scan stops with "other" where the source leaves the fragment: a
\* character outside it, line ends mixed with spaces before the expression,
\* anything but line ends after a line end, a keyword, a name or digits that
\* run into a quote or a letter (a string prefix, 1e5, 0x1F, 1_0), digits with
\* a leading zero, a string left open or holding a character outside
\* StringChars, a triple quote, an operator that is no comparison or that
\* only spaces part from the next operator (the evaluator joins the two).
RECURSIVE Scan(_, _, _)
Scan(s, i, started) ==
    IF i > Len(s) THEN <<>>
    ELSE LET ch == s[i]
         IN  CASE ch \in Blanks ->
                      IF started \/ \A k \in 1..(i - 1) : s[k] \in Blanks
                      THEN Scan(s, i + 1, started)
                      ELSE <<OtherToken>>
               [] ch \in LineEnds ->
                      IF ~started /\ \A k \in 1..(i - 1) : s[k] \in LineEnds
                      THEN Scan(s, i + 1, FALSE)
                      ELSE IF started /\ \A k \in (i + 1)..Len(s) : s[k] \in LineEnds
                      THEN <<>>
                      ELSE <<OtherToken>>
               [] ch \in Letters ->
                      LET j == RunEnd(s, i, Letters \cup Digits)
                          v == SubSeq(s, i, j)
                      IN  IF Join(v) \in Keywords
                             \/ (j < Len(s) /\ s[j + 1] \in Quotes)
                          THEN <<OtherToken>>
                          ELSE <<Token("name", v)>> \o Scan(s, j + 1, TRUE)
               [] ch \in Digits ->
                      LET j == RunEnd(s, i, Digits)
                          v == SubSeq(s, i, j)
                      IN  IF \/ j < Len(s) /\ s[j + 1] \in Letters \cup Quotes
                             \/ Len(v) > 1 /\ v[1] = "0"
                          THEN <<OtherToken>>
                          ELSE <<Token("number", v)>> \o Scan(s, j + 1, TRUE)
               [] ch \in Quotes ->
                      LET ends == {k \in (i + 1)..Len(s) : s[k] = ch}
                          k == CHOOSE k \in ends : \A m \in ends : k <= m
                      IN  IF ends = {}
                          THEN <<OtherToken>>
                          ELSE IF \E m \in (i + 1)..(k - 1) : s[m] \notin StringChars
                          THEN <<OtherToken>>
                          ELSE IF k = i + 1 /\ k < Len(s) /\ s[k + 1] = ch
                          THEN <<OtherToken>>
                          ELSE <<Token("string", SubSeq(s, i + 1, k - 1))>>
                               \o Scan(s, k + 1, TRUE)
               [] ch = "," -> <<Token("comma", <<ch>>)>> \o Scan(s, i + 1, TRUE)
               [] ch \in OperatorChars ->
                      LET j == RunEnd(s, i, OperatorChars)
                          v == SubSeq(s, i, j)
                          m == RunEnd(s, j, Blanks)
                      IN  IF /\ v \in Comparisons
                             /\ ~(m < Len(s) /\ s[m + 1] \in OperatorChars)
                          THEN <<Token("compare", v)>> \o Scan(s, j + 1, TRUE)
                          ELSE <<OtherToken>>
               [] OTHER -> <<OtherToken>>

\* adjacent string literals are one literal, their contents concatenated
RECURSIVE Concatenate(_)
Concatenate(toks) ==
    IF Len(toks) < 2 THEN toks
    ELSE IF toks[1].t = "string" /\ toks[2].t = "string"
    THEN Concatenate(<<Token("string", toks[1].v \o toks[2].v)>>
                     \o SubSeq(toks, 3, Len(toks)))
    ELSE <<toks[1]>> \o Concatenate(Tail(toks))

\* the pieces of the token sequence between its commas
RECURSIVE Split(_)
Split(toks) ==
    IF \A i \in DOMAIN toks : toks[i].t # "comma" THEN <<toks>>
    ELSE LET i == CHOOSE i \in DOMAIN toks :
                      toks[i].t = "comma" /\ \A j \in 1..(i - 1) : toks[j].t # "comma"
         IN  <<SubSeq(toks, 1, i - 1)>> \o Split(SubSeq(toks, i + 1, Len(toks)))

\* the elements of the tuple: the pieces between the commas, the empty piece
\* after a trailing comma left out
TupleElements(toks) ==
    LET pieces == Split(toks)
        m == Len(pieces)
    IN  IF m >= 2 /\ pieces[m] = <<>> THEN SubSeq(pieces, 1, m - 1) ELSE pieces

Operands == {"name", "number", "string"}

\* an element parses when operands and comparison operators alternate
WellFormed(el) ==
    /\ Len(el) % 2 = 1
    /\ \A k \in DOMAIN el :
           IF k % 2 = 1 THEN el[k].t \in Operands ELSE el[k].t = "compare"

\* the expression parsed: [status, elements]; status is "other" (the source
\* leaves the fragment, or is blank), "SyntaxError", "expression" (no comma:
\* not a tuple) or "tuple"
Parse(s) ==
    LET toks == Concatenate(Scan(s, 1, FALSE))
        el == TupleElements(toks)
    IN  IF toks = <<>> \/ \E k \in DOMAIN toks : toks[k].t = "other"
        THEN [status |-> "other", elements |-> <<>>]
        ELSE IF \E i \in DOMAIN el : ~WellFormed(el[i])
        THEN [status |-> "SyntaxError", elements |-> <<>>]
        ELSE [status |-> IF \E k \in DOMAIN toks : toks[k].t = "comma"
                         THEN "tuple" ELSE "expression",
              elements |-> el]

\* the columns of a frame of person records, by the type of their values
NumericColumns == {"AGEP", "PINCP", "PWGTP"}
StringColumns == {"SEX", "FAGEP"}
Columns == NumericColumns \cup StringColumns

\* names the evaluator may resolve outside the columns: the axes of the
\* frame and their levels, and the names of its default scope
ScopeNames ==
    {"index", "columns", "ilevel_0", "clevel_0", "inf", "Inf", "nan", "NaN",
     "Timestamp", "datetime", "list", "tuple"}

\* an element the evaluator is modelled on
Modelled(el) ==
    /\ Len(el) = 3
    /\ \E k \in {1, 3} : el[k].t = "name"
    /\ \A k \in {1, 3} : el[k].t = "name" => Join(el[k].v) \notin ScopeNames

\* a name that is no column of the frame
Undefined(el) ==
    \E k \in DOMAIN el : el[k].t = "name" /\ Join(el[k].v) \notin Columns

IsText(tok) ==
    tok.t = "string" \/ (tok.t = "name" /\ Join(tok.v) \in StringColumns)

\* the value of an operand on a record: a float64, or a text
Operand(tok, row) ==
    CASE tok.t = "number" -> Int2X(Number(tok.v))
      [] tok.t = "string" -> Join(tok.v)
      [] tok.t = "name" /\ Join(tok.v) = "PWGTP" -> Int2X(row.PWGTP)
      [] tok.t = "name" /\ Join(tok.v) # "PWGTP" -> row[Join(tok.v)]

\* a < b on float64 values, neither NaN
XLt(a, b) ==
    CASE a.k = "ninf" -> b.k # "ninf"
      [] a.k = "pinf" -> FALSE
      [] b.k = "pinf" -> TRUE
      [] b.k = "ninf" -> FALSE
      [] OTHER        -> a.n * b.d < b.n * a.d

\* a comparison of float64 values: with a NaN only != holds
XCompare(op, a, b) ==
    IF IsNaN(a) \/ IsNaN(b) THEN op = <<"!", "=">>
    ELSE CASE op = <<">">>      -> XLt(b, a)
           [] op = <<"<">>      -> XLt(a, b)
           [] op = <<">", "=">> -> ~XLt(a, b)
           [] op = <<"<", "=">> -> ~XLt(b, a)
           [] op = <<"=", "=">> -> a = b
           [] op = <<"!", "=">> -> a # b

\* a comparison of texts, for equality; a missing value equals nothing
TextCompare(op, a, b, missing) ==
    CASE op = <<"=", "=">> -> ~missing /\ a = b
      [] op = <<"!", "=">> -> missing \/ a # b

\* the verdict of the comparison q on a record
QueryHolds(q, row) ==
    CASE ~IsText(q[1]) /\ ~IsText(q[3]) ->
             XCompare(q[2].v, Operand(q[1], row), Operand(q[3], row))
      [] IsText(q[1]) /\ IsText(q[3]) ->
             TextCompare(q[2].v, Operand(q[1], row), Operand(q[3], row),
                         \E k \in {1, 3} : /\ q[k].t = "name"
                                           /\ Operand(q[k], row) = Missing)

Eval(rows, s) ==
    LET p == Parse(s)
        el == p.elements
    IN  CASE p.status = "SyntaxError" ->
                 [status |-> "SyntaxError", which |-> <<>>]
          [] /\ p.status \in {"expression", "tuple"}
             /\ \A i \in DOMAIN el : Modelled(el[i]) ->
                 IF \E i \in DOMAIN el : Undefined(el[i])
                 THEN [status |-> "UndefinedVariableError", which |-> <<>>]
                 ELSE IF p.status = "expression"
                 THEN [status |-> "NotAMatrix", which |-> <<>>]
                 ELSE [status |-> "ok",
                       which |-> [i \in DOMAIN el |->
                                     [r \in DOMAIN rows |->
                                         QueryHolds(el[i], rows[r])]]]

\* ---------------------------------------------------------------------------
\* State.  None is <<>>, a present optional value x is <<x>>.
\* ---------------------------------------------------------------------------
VARIABLES
    \* the frequency matrix and the bandwidth as the caller passed them
    caller,
    \* arguments and locals of get_embeddings
    files, stats, n_freqs, freqs, bandwidth, chunksize, skip_rbf, skip_feats,
    seed, rff_orthogonal, subsets, squeeze_queries, skip_alloc_flags,
    n_feats, feat_names, n_subsets, emb_lin, emb_rff, region_weights, read,
    file_idx, pos, lin_emb_pieces, rff_emb_pieces, weights, total_weights,
    c_read, c, which, result,
    \* the calls made so far: of pick_gaussian_bandwidth, of pick_rff_freqs,
    \* and the frequency matrices handed to rff_embedding
    bandwidth_calls, freqs_calls, freqs_used,
    \* arguments and results of a direct call of _num_feats and get_dummies
    df, num_feats, encoded,
    \* the position in the running function
    pc

vars == <<files, stats, n_freqs, freqs, bandwidth, chunksize, skip_rbf,
          skip_feats, seed, rff_orthogonal, subsets, squeeze_queries, skip_alloc_flags, n_feats,
          feat_names, n_subsets, emb_lin, emb_rff, region_weights, read,
          file_idx, pos, lin_emb_pieces, rff_emb_pieces, weights,
          total_weights, c_read, c, which, result, bandwidth_calls,
          freqs_calls, freqs_used, df, num_feats, encoded, pc, mtrand,
          caller>>

\* what the call never assigns: its other arguments, and the generators
args == <<files, stats, chunksize, skip_rbf, seed, rff_orthogonal,
          squeeze_queries, skip_alloc_flags, mtrand, caller>>
arrays == <<emb_lin, emb_rff, region_weights>>
file_locals == <<lin_emb_pieces, rff_emb_pieces, weights, total_weights>>
chunk_locals == <<c_read, c, which>>
call_log == <<bandwidth_calls, freqs_calls, freqs_used>>
encoder_vars == <<df, num_feats, encoded>>

\* an entry of an np.empty array that was never written
Uninit == [k |-> "uninit", n |-> 0, d |-> 1]

\* ---------------------------------------------------------------------------
\* get_embeddings, lines 167-185: the skip-set, n_feats, and the resolution
\* of the bandwidth and the frequency matrix.
\* ---------------------------------------------------------------------------
SetupFreqs ==
    /\ pc = "start"
    /\ LET sf == skip_feats \cup
                 (IF skip_alloc_flags THEN Range(alloc_flags) ELSE {})
           nf == _num_feats(stats, sf)
           bw == IF bandwidth = <<>>
                 THEN pick_gaussian_bandwidth(stats, sf)
                 ELSE [status |-> "ok", bandwidth |-> bandwidth]
       IN  /\ skip_feats' = sf
           /\ n_feats' = nf
           /\ feat_names' = <<>>
           /\ IF skip_rbf
              THEN /\ pc' = "subsets"
                   /\ UNCHANGED <<freqs, bandwidth, n_freqs, bandwidth_calls,
                                  freqs_calls>>
              ELSE IF freqs # <<>>
              THEN /\ pc' = "subsets"
                   /\ n_freqs' = NCols(freqs[1])
                   /\ UNCHANGED <<freqs, bandwidth, bandwidth_calls, freqs_calls>>
              ELSE IF bw.status # "ok"
              THEN /\ pc' = "failed"
                   /\ bandwidth_calls' = bandwidth_calls + 1
                   /\ UNCHANGED <<freqs, bandwidth, n_freqs, freqs_calls>>
              ELSE \E picked \in {pick_rff_freqs(n_freqs, bw.bandwidth[1], seed,
                                                 <<nf>>, rff_orthogonal,
                                                 <<>>, {})} :
                   /\ bandwidth_calls' =
                          bandwidth_calls + (IF bandwidth = <<>> THEN 1 ELSE 0)
                   /\ bandwidth' = bw.bandwidth
                   /\ freqs_calls' = freqs_calls + 1
                   /\ UNCHANGED n_freqs
                   /\ IF picked = {}
                      THEN pc' = "failed" /\ UNCHANGED freqs
                      ELSE /\ pc' = "subsets"
                           /\ \E f \in picked : freqs' = <<f>>
    /\ UNCHANGED <<args, subsets, n_subsets, arrays, read, file_idx, pos,
                   file_locals, chunk_locals, result, freqs_used, encoder_vars>>

\* ---------------------------------------------------------------------------
\* get_embeddings, lines 187-202: the subset expression, the output arrays.
\* ---------------------------------------------------------------------------
SetupSubsets ==
    /\ pc = "subsets"
    /\ LET s0 == IF subsets = <<>> THEN QWeight ELSE subsets[1]
           n  == CountSubsets(s0)
       IN  /\ subsets' = <<TerminateSubsets(s0)>>
           /\ n_subsets' = n
           /\ emb_lin' = [f \in DOMAIN files |->
                             [j \in 1..n_feats |-> [q \in 1..n |-> Uninit]]]
           /\ emb_rff' = IF skip_rbf THEN <<>>
                         ELSE [f \in DOMAIN files |->
                                  [j \in 1..(2 * n_freqs) |->
                                      [q \in 1..n |-> Uninit]]]
           /\ region_weights' = [f \in DOMAIN files |-> [q \in 1..n |-> Uninit]]
    /\ read' = 0
    /\ file_idx' = 1
    /\ pc' = "file"
    /\ UNCHANGED <<args, n_freqs, freqs, bandwidth, skip_feats, n_feats,
                   feat_names, pos, file_locals, chunk_locals, result,
                   call_log, encoder_vars>>

\* ---------------------------------------------------------------------------
\* get_embeddings, lines 203-208: the next file is opened.
\* ---------------------------------------------------------------------------
BeginFile ==
    /\ pc = "file"
    /\ file_idx <= Len(files)
    /\ lin_emb_pieces' = <<>>
    /\ rff_emb_pieces' = <<>>
    /\ weights' = <<>>
    /\ total_weights' = <<>>
    /\ pos' = 0
    /\ pc' = "chunk"
    /\ UNCHANGED <<args, n_freqs, freqs, bandwidth, skip_feats, subsets, n_feats,
                   feat_names, n_subsets, arrays, read, file_idx, chunk_locals,
                   result, call_log, encoder_vars>>

\* ---------------------------------------------------------------------------
\* get_embeddings, lines 209-251: one chunk of the current file.  The call
\* fails at the progress bar when more records have been read than
\* stats['n_total'], at the evaluator, or at the encoder.
\* ---------------------------------------------------------------------------
Min(a, b) == IF a < b THEN a ELSE b

\* the next chunk pd.read_hdf yields: at most chunksize consecutive records
NextChunk(file, p, size) == SubSeq(file, p + 1, Min(p + size, Len(file)))

\* QueryChunk without lines 220-222: the doubled chunk is never cut back.
QueryChunkNoCutBack(chunk, expr) ==
    LET c2 == IF Len(chunk) = 1 THEN chunk \o chunk ELSE chunk
        ev == Eval(c2, expr)
    IN  [status |-> ev.status, c |-> c2, which |-> ev.which]

\* lines 213-222: the queries are evaluated on the chunk; a chunk of one
\* record is doubled before and cut back to one record and one column after.
\* The result is [status, c, which].
QueryChunk(chunk, expr) ==
    LET hacked == Len(chunk) = 1
        c2 == IF hacked THEN chunk \o chunk ELSE chunk
        ev == Eval(c2, expr)
    IN  IF ev.status # "ok" THEN [status |-> ev.status, c |-> c2, which |-> <<>>]
        ELSE IF hacked
        THEN [status |-> "ok", c |-> SubSeq(c2, 1, 1),
              which |-> [i \in DOMAIN ev.which |-> SubSeq(ev.which[i], 1, 1)]]
        ELSE [status |-> "ok", c |-> c2, which |-> ev.which]

\* keep = which.any(axis=0), as the increasing sequence of the kept positions
RECURSIVE KeptFrom(_, _, _)
KeptFrom(w, r, n) ==
    IF r > n THEN <<>>
    ELSE (IF \E i \in DOMAIN w : w[i][r] THEN <<r>> ELSE <<>>)
         \o KeptFrom(w, r + 1, n)

Keep(w) == KeptFrom(w, 1, NCols(w))

\* c.loc[keep] and which[:, keep]
KeepRows(rows, keep) == [r \in DOMAIN keep |-> rows[keep[r]]]
KeepCols(w, keep) == [i \in DOMAIN w |-> [r \in DOMAIN keep |-> w[i][keep[r]]]]

\* wts = np.tile(c.PWGTP, (n_subsets, 1)); wts[i, ~w] = 0 for each row w
ChunkWeights(rows, w, n) ==
    [i \in 1..n |->
        [r \in DOMAIN rows |->
            IF i <= Len(w) /\ ~w[i][r] THEN 0 ELSE rows[r].PWGTP]]

\* total_weights += ws; total_weights is the integer 0 (<<>>) before the
\* first chunk of a file
AddWeights(total, ws) ==
    IF total = <<>> THEN ws ELSE [q \in DOMAIN ws |-> total[q] + ws[q]]

\* The frequency matrix drawn again for every file, when the call drew it.
FreqsResampled ==
    IF freqs_calls = 0 THEN freqs[1]
    ELSE FreqDraw([i \in 1..MaxDraws |-> file_idx % 2], n_freqs,
                  bandwidth[1], n_feats, rff_orthogonal)

\* line 247: the frequency matrix handed to rff_embedding
FreqsForChunk == freqs[1]

\* bar.update(value) of the bar built with max_value (lines 199, 211): it
\* raises ValueError for a value above max_value
BarUpdateOk(value, max_value) == value <= max_value

ProcessChunk ==
    /\ pc = "chunk"
    /\ pos < Len(files[file_idx])
    /\ \E chunk \in {NextChunk(files[file_idx], pos, chunksize)} :
       \E qc \in {QueryChunk(chunk, subsets[1])} :
       \E keep \in {Keep(qc.which)} :
       \E rows \in {KeepRows(qc.c, keep)} :
       \E w \in {KeepCols(qc.which, keep)} :
           /\ read' = read + Len(chunk)
           /\ pos' = pos + Len(chunk)
           /\ c_read' = chunk
           /\ c' = IF ~BarUpdateOk(read + Len(chunk), stats.n_total) THEN chunk
                   ELSE IF qc.status # "ok" THEN qc.c ELSE rows
           /\ which' = IF ~BarUpdateOk(read + Len(chunk), stats.n_total)
                       THEN which
                       ELSE IF qc.status # "ok" THEN qc.which ELSE w
           /\ IF ~BarUpdateOk(read + Len(chunk), stats.n_total)
              THEN /\ pc' = "failed"
                   /\ UNCHANGED <<feat_names, file_locals, freqs_used>>
              ELSE IF qc.status # "ok"
              THEN /\ pc' = "failed"
                   /\ UNCHANGED <<feat_names, file_locals, freqs_used>>
              ELSE IF rows = <<>>
              THEN /\ pc' = "chunk"
                   /\ UNCHANGED <<feat_names, file_locals, freqs_used>>
              ELSE \E enc \in {get_dummies(rows, stats, <<n_feats>>,
                                           feat_names = <<>>, skip_feats)} :
                   IF enc.status # "ok" \/ Len(w) > n_subsets
                   THEN /\ pc' = "failed"
                        /\ UNCHANGED <<feat_names, file_locals, freqs_used>>
                   ELSE \E wts \in {ChunkWeights(rows, w, n_subsets)} :
                        \E ws \in {WeightSums(wts)} :
                        /\ pc' = "chunk"
                        /\ feat_names' = IF feat_names = <<>>
                                         THEN <<enc.feat_names>> ELSE feat_names
                        /\ lin_emb_pieces' =
                               Append(lin_emb_pieces,
                                      linear_embedding(enc.out, wts))
                        /\ rff_emb_pieces' =
                               IF skip_rbf THEN rff_emb_pieces
                               ELSE Append(rff_emb_pieces,
                                           rff_embedding(enc.out, wts, FreqsForChunk))
                        /\ freqs_used' = IF skip_rbf THEN freqs_used
                                         ELSE freqs_used \cup {FreqsForChunk}
                        /\ weights' = Append(weights, ws)
                        /\ total_weights' = AddWeights(total_weights, ws)
    /\ UNCHANGED <<args, n_freqs, freqs, bandwidth, skip_feats, subsets, n_feats,
                   n_subsets, arrays, file_idx, result, bandwidth_calls,
                   freqs_calls, encoder_vars>>

\* ---------------------------------------------------------------------------
\* get_embeddings, lines 253-269: the chunks of a file are combined.
\* ---------------------------------------------------------------------------
\* Ratio without the division: every chunk counts in full.
RatioUnweighted(ws, total) == [q \in DOMAIN ws |-> One]

\* ratio = ws.copy(); nz = total_weights != 0; ratio[nz] /= total_weights[nz]
Ratio(ws, total) ==
    [q \in DOMAIN ws |->
        IF total[q] # 0 THEN XDiv(Int2X(ws[q]), Int2X(total[q]))
        ELSE Int2X(ws[q])]

\* emb[file_idx] = 0; for rs, l in zip(ratios, pieces): emb[file_idx] += l * rs
RECURSIVE Combine(_, _, _, _)
Combine(acc, pieces, wss, total) ==
    IF pieces = <<>> THEN acc
    ELSE Combine([j \in DOMAIN acc |->
                     [q \in DOMAIN acc[j] |->
                         XAdd(acc[j][q],
                              XMul(Head(pieces)[j][q],
                                   Ratio(Head(wss), total)[q]))]],
                 Tail(pieces), Tail(wss), total)

Zeros(rows, cols) == [j \in 1..rows |-> [q \in 1..cols |-> Zero]]

FinalizeFile ==
    /\ pc = "chunk"
    /\ pos = Len(files[file_idx])
    /\ emb_lin' = [emb_lin EXCEPT ![file_idx] =
                      Combine(Zeros(n_feats, n_subsets), lin_emb_pieces,
                              weights, total_weights)]
    /\ emb_rff' = IF skip_rbf THEN emb_rff
                  ELSE [emb_rff EXCEPT ![file_idx] =
                           Combine(Zeros(2 * n_freqs, n_subsets),
                                   rff_emb_pieces, weights, total_weights)]
    /\ region_weights' =
           [region_weights EXCEPT ![file_idx] =
               [q \in 1..n_subsets |->
                   IF total_weights = <<>> THEN Zero
                   ELSE Int2X(total_weights[q])]]
    /\ file_idx' = file_idx + 1
    /\ pc' = "file"
    /\ UNCHANGED <<args, n_freqs, freqs, bandwidth, skip_feats, subsets, n_feats,
                   feat_names, n_subsets, read, pos, file_locals, chunk_locals,
                   result, call_log, encoder_vars>>

\* ---------------------------------------------------------------------------
\* get_embeddings, lines 270-281: the query axis is squeezed, the result
\* tuple is built.  An array is [shape, data].
\* ---------------------------------------------------------------------------
\* a[:, :, 0] and a[:, 0]
DropAxis3(a) == [f \in DOMAIN a |-> [j \in DOMAIN a[f] |-> a[f][j][1]]]
DropAxis2(a) == [f \in DOMAIN a |-> a[f][1]]

\* The squeeze without the test of the number of queries.
SqueezesAnyCount == squeeze_queries

Squeezes == squeeze_queries /\ n_subsets = 1

\* The tuple with the frequencies, the bandwidth and the feature names only
\* when the frequencies were drawn inside the call.
ReturnedTupleIfComputed ==
    <<"emb_lin">> \o (IF skip_rbf THEN <<>> ELSE <<"emb_rff">>)
    \o <<"region_weights">>
    \o (IF freqs_calls = 1 THEN <<"freqs", "bandwidth", "feat_names">> ELSE <<>>)

\* the names of the elements of the returned tuple, in order
ReturnedTuple ==
    IF skip_rbf THEN <<"emb_lin", "region_weights", "feat_names">>
    ELSE <<"emb_lin", "emb_rff", "region_weights", "freqs", "bandwidth",
           "feat_names">>

Return ==
    /\ pc = "file"
    /\ file_idx > Len(files)
    /\ result' =
          <<[tuple |-> ReturnedTuple,
             emb_lin |->
                 IF Squeezes
                 THEN [shape |-> <<Len(files), n_feats>>,
                       data |-> DropAxis3(emb_lin)]
                 ELSE [shape |-> <<Len(files), n_feats, n_subsets>>,
                       data |-> emb_lin],
             emb_rff |->
                 IF skip_rbf THEN [shape |-> <<>>, data |-> <<>>]
                 ELSE IF Squeezes
                 THEN [shape |-> <<Len(files), 2 * n_freqs>>,
                       data |-> DropAxis3(emb_rff)]
                 ELSE [shape |-> <<Len(files), 2 * n_freqs, n_subsets>>,
                       data |-> emb_rff],
             region_weights |->
                 IF Squeezes
                 THEN [shape |-> <<Len(files)>>,
                       data |-> DropAxis2(region_weights)]
                 ELSE [shape |-> <<Len(files), n_subsets>>,
                       data |-> region_weights],
             freqs |-> freqs,
             bandwidth |-> bandwidth,
             feat_names |-> feat_names]>>
    /\ pc' = "done"
    /\ UNCHANGED <<args, n_freqs, freqs, bandwidth, skip_feats, subsets, n_feats,
                   feat_names, n_subsets, arrays, read, file_idx, pos,
                   file_locals, chunk_locals, call_log, encoder_vars>>

\* ---------------------------------------------------------------------------
\* A direct call of _num_feats and of get_dummies (num_feats=None,
\* ret_df=True) on a batch.
\* ---------------------------------------------------------------------------
CallNumFeats ==
    /\ pc = "enc_start"
    /\ num_feats' = <<_num_feats(stats, skip_feats)>>
    /\ pc' = "enc_counted"
    /\ UNCHANGED <<args, n_freqs, freqs, bandwidth, skip_feats, subsets, n_feats,
                   feat_names, n_subsets, arrays, read, file_idx, pos,
                   file_locals, chunk_locals, result, call_log, df, encoded>>

CallGetDummies ==
    /\ pc = "enc_counted"
    /\ encoded' = get_dummies(df, stats, <<>>, TRUE, skip_feats)
    /\ pc' = "enc_done"
    /\ UNCHANGED <<args, n_freqs, freqs, bandwidth, skip_feats, subsets, n_feats,
                   feat_names, n_subsets, arrays, read, file_idx, pos,
                   file_locals, chunk_locals, result, call_log, df, num_feats>>

\* ---------------------------------------------------------------------------
\* Inputs.
\* ---------------------------------------------------------------------------
Record(agep, pincp, sex, fagep, pwgtp) ==
    [AGEP |-> agep, PINCP |-> pincp, SEX |-> sex, FAGEP |-> fagep,
     PWGTP |-> pwgtp]

\* stats['sample']: the reference sample of the StatsBundle
Sample ==
    <<Record(Int2X(0), Int2X(1), "a", "a", 1),
      Record(Int2X(1), Int2X(1), "b", "a", 1),
      Record(Int2X(2), Int2X(3), "a", "a", 1)>>

\* A StatsBundle over the schema: real_means and real_stds carry every real
\* feature in schema order, value_counts every discrete feature and flag.
StatsBundle(mean, std, vc_sex, vc_fagep) ==
    [real_means |-> <<<<"AGEP", Int2X(mean)>>, <<"PINCP", Int2X(1)>>>>,
     real_stds  |-> <<<<"AGEP", Int2X(std)>>, <<"PINCP", Int2X(1)>>>>,
     value_counts |-> [SEX |-> vc_sex, FAGEP |-> vc_fagep],
     n_total |-> 3,
     sample |-> Sample]

\* value_counts of SEX: with and without records of a missing value
SexCounts == {<<<<"a", 1>>>>, <<<<"a", 1>>, <<"b", 1>>>>, <<<<"b", 2>>, <<"a", 1>>>>}
FlagCounts == {<<<<"a", 3>>>>, <<<<"a", 1>>>>}

RealValues == {NaN} \cup {Int2X(v) : v \in 0..MaxVal}

\* sequences over S of length lo..hi
SeqsOf(S, lo, hi) == UNION {[1..n -> S] : n \in lo..hi}

\* the seeded generators where no call is seeded: any table, here the first
\* sample of every call
NoSeededCall == [s \in Seeds |-> [i \in 1..MaxDraws |-> 0]]

\* the values of the variables a specification does not use
IdleEmbeddings ==
    /\ files = <<>> /\ n_freqs = 0 /\ freqs = <<>> /\ bandwidth = <<>>
    /\ chunksize = 1 /\ skip_rbf = TRUE /\ subsets = <<>>
    /\ seed = <<>> /\ rff_orthogonal = TRUE
    /\ squeeze_queries = TRUE /\ skip_alloc_flags = FALSE
    /\ mtrand = NoSeededCall
    /\ caller = [freqs |-> freqs, bandwidth |-> bandwidth]

Locals ==
    /\ n_feats = 0 /\ feat_names = <<>> /\ n_subsets = 0
    /\ emb_lin = <<>> /\ emb_rff = <<>> /\ region_weights = <<>>
    /\ read = 0 /\ file_idx = 0 /\ pos = 0
    /\ lin_emb_pieces = <<>> /\ rff_emb_pieces = <<>> /\ weights = <<>>
    /\ total_weights = <<>>
    /\ c_read = <<>> /\ c = <<>> /\ which = <<>> /\ result = <<>>
    /\ bandwidth_calls = 0 /\ freqs_calls = 0 /\ freqs_used = {}
    /\ num_feats = <<>>
    /\ encoded = [status |-> "none", out |-> <<>>, feat_names |-> <<>>]

\* --- the encoder called on one record ---
InitEnc ==
    /\ stats \in {StatsBundle(m, sd, vs, vf) :
                     m \in 0..MaxMean, sd \in 0..MaxStd,
                     vs \in SexCounts, vf \in FlagCounts}
    /\ skip_feats \in SUBSET AllFeats
    /\ df \in {<<Record(a, p, sx, fl, 1)>> :
                  a \in RealValues, p \in {NaN, Int2X(2)},
                  sx \in {"a", "b", Unseen, Missing}, fl \in {"a", Unseen}}
    /\ IdleEmbeddings
    /\ Locals
    /\ pc = "enc_start"

NextEnc == CallNumFeats \/ CallGetDummies

SpecEnc == InitEnc /\ [][NextEnc]_vars

\* --- get_embeddings on one file, split into chunks ---
\* The records of a file: one matching 'SEX=="a"' only, with the weights 0
\* (it fails 'PWGTP > 0'), 1 and MaxWt, and one matching 'AGEP>0' only, with
\* the weights 0 and 1.
FileRecords ==
    {Record(Int2X(0), NaN, "a", "a", w) : w \in {0, 1, MaxWt}}
    \cup {Record(Int2X(2), NaN, "b", "a", w) : w \in {0, 1}}

\* The statistics of n records: AGEP has mean 1 and the given standard
\* deviation; SEX has no overflow column, FAGEP is an allocation flag; the
\* reference sample holds at most n records.
EmbStats(std, n) ==
    [StatsBundle(1, std, <<<<"a", n - 1>>, <<"b", 1>>>>, <<<<"a", n>>>>)
        EXCEPT !.n_total = n,
               !.sample = SubSeq(Sample, 1, Min(n, Len(Sample)))]

\* a frequency matrix supplied by the caller: n_feats x 1, the frequency of
\* feature i is i
SuppliedFreqs(nf) == [i \in 1..nf |-> <<Int2X(i)>>]

Init ==
    /\ files \in {<<f>> : f \in SeqsOf(FileRecords, 0, MaxRecs)}
    /\ stats \in {EmbStats(0, MaxRecs), EmbStats(1, MaxRecs),
                  EmbStats(1, MaxRecs - 1)}
    /\ n_freqs = 2048
    /\ freqs = <<SuppliedFreqs(_num_feats(stats, Range(alloc_flags)))>>
    /\ bandwidth = <<>>
    /\ chunksize \in 1..MaxRecs
    /\ skip_rbf = FALSE
    /\ skip_feats = {}
    /\ seed = <<>>
    /\ rff_orthogonal = TRUE
    /\ mtrand = NoSeededCall
    /\ caller = [freqs |-> freqs, bandwidth |-> bandwidth]
    /\ subsets \in {<<>>, <<QSex \o <<",">> \o QAge>>}
    /\ squeeze_queries = TRUE
    /\ skip_alloc_flags = TRUE
    /\ df = <<>>
    /\ Locals
    /\ pc = "start"

Next ==
    SetupFreqs \/ SetupSubsets \/ BeginFile \/ ProcessChunk \/ FinalizeFile
    \/ Return

Spec == Init /\ [][Next]_vars

\* ===========================================================================
\* Properties of get_embeddings on one file (specification Spec).
\* ===========================================================================
\* the queries of the call, as the evaluator reads them
Queries == Parse(subsets[1]).elements

\* the weight a record contributes to query i of qs: its PWGTP if the record
\* satisfies the query, else 0
Contribution(qs, i, row) == IF QueryHolds(qs[i], row) THEN row.PWGTP ELSE 0

\* the records of a file that satisfy at least one query of qs
Selected(qs, file) ==
    SelectSeq(file, LAMBDA row : \E i \in DOMAIN qs : QueryHolds(qs[i], row))

\* the weights of the selected records sel, one row per query
FileWeights(qs, sel) ==
    [i \in DOMAIN qs |-> [r \in DOMAIN sel |-> Contribution(qs, i, sel[r])]]

\* the encoded matrix of the selected records
FileFeatures(sel) ==
    IF sel = <<>> THEN <<>>
    ELSE get_dummies(sel, stats, <<>>, FALSE, skip_feats).out

\* the weighted means over the whole file at once
WholeLinear(feats, wts) ==
    IF feats = <<>> THEN Zeros(n_feats, n_subsets)
    ELSE linear_embedding(feats, wts)

WholeRff(feats, wts) ==
    IF feats = <<>> THEN Zeros(2 * n_freqs, n_subsets)
    ELSE rff_embedding(feats, wts, freqs[1])

\* file f has been combined
Finalized(f) == pc \in {"file", "done"} /\ f < file_idx

\* C1: chunksize invariance.  Whatever the chunk size, the combined linear and
\* RFF embedding of a file equal the weighted means over the whole file at
\* once, and the region weight of each query is the total weight of the
\* file's records that satisfy the query.
C1_ChunksizeInvariance ==
    \A f \in DOMAIN files :
        Finalized(f) =>
            \A qs \in {Queries} :
            \A sel \in {Selected(qs, files[f])} :
            \A wts \in {FileWeights(qs, sel)} :
            \A feats \in {FileFeatures(sel)} :
                /\ emb_lin[f] = WholeLinear(feats, wts)
                /\ emb_rff[f] = WholeRff(feats, wts)
                /\ \A i \in 1..n_subsets :
                       region_weights[f][i] = Int2X(SumSeq(wts[i]))

\* the angles of the selected records of file f
FileAngles(f) ==
    Angles(FileFeatures(Selected(Queries, files[f])), freqs[1])

\* A file of three records was combined from two chunks of different, non-zero
\* weight; a query selects a record of weight above 1 and two records whose
\* angles differ; the embedding is finite, and neither its linear part, its
\* sines nor its cosines are zero.
C1_Witness ==
    /\ Finalized(1)
    /\ Len(files[1]) = 3
    /\ chunksize = 2
    /\ Len(weights) = 2
    /\ \E r1, r2 \in DOMAIN FileAngles(1) : FileAngles(1)[r1] # FileAngles(1)[r2]
    /\ \E i \in 1..n_subsets :
          /\ weights[1][i] > 0
          /\ weights[2][i] > 0
          /\ weights[1][i] # weights[2][i]
          /\ \E r \in DOMAIN files[1] :
                Contribution(Queries, i, files[1][r]) > 1
          /\ \E r1, r2 \in DOMAIN files[1] :
                /\ Contribution(Queries, i, files[1][r1]) > 0
                /\ Contribution(Queries, i, files[1][r2]) > 0
                /\ files[1][r1].AGEP # files[1][r2].AGEP
          /\ \E j \in 1..n_feats :
                IsFinite(emb_lin[1][j][i]) /\ emb_lin[1][j][i] # Zero
          /\ \E j \in 1..n_freqs :
                /\ IsFinite(emb_rff[1][j][i]) /\ emb_rff[1][j][i] # Zero
                /\ IsFinite(emb_rff[1][n_freqs + j][i])
                /\ emb_rff[1][n_freqs + j][i] # Zero

\* C4: zero-weight guard.  A query whose contributing weight in a file is
\* zero gets an all-zero linear embedding, an all-zero RFF embedding and
\* region weight 0 for that file.
C4_ZeroWeightGuard ==
    \A f \in DOMAIN files :
        Finalized(f) =>
            \A qs \in {Queries} :
            \A wts \in {FileWeights(qs, Selected(qs, files[f]))} :
            \A i \in 1..n_subsets :
                SumSeq(wts[i]) = 0 =>
                    /\ \A j \in 1..n_feats : emb_lin[f][j][i] = Zero
                    /\ \A j \in 1..(2 * n_freqs) : emb_rff[f][j][i] = Zero
                    /\ region_weights[f][i] = Zero

\* the total weight of the first p records of a file that satisfy query i
RECURSIVE PrefixWeight(_, _, _, _)
PrefixWeight(qs, file, p, i) ==
    IF p = 0 THEN 0
    ELSE PrefixWeight(qs, file, p - 1, i) + Contribution(qs, i, file[p])

Last(s) == s[Len(s)]

\* C9: the single-record workaround is transparent.  After a chunk of exactly
\* one record, the chunk is that record (or empty, if no query selects it)
\* and the boolean matrix has one column holding the queries' verdicts on the
\* record; the record's weight enters each matching query's chunk weight sum
\* once, its encoded row is the chunk's linear embedding and the sines and
\* cosines of the row's angles are the chunk's RFF embedding where the weight
\* is not zero, one piece of each is appended, and with chunks of one record
\* the running total is the total weight of the records read so far.
C9_SingleRecordTransparent ==
    (pc = "chunk" /\ pos > 0 /\ Len(c_read) = 1) =>
        \A qs \in {Queries} :
        \A row \in {c_read[1]} :
        \A hit \in {[i \in DOMAIN qs |-> QueryHolds(qs[i], row)]} :
            IF \E i \in DOMAIN hit : hit[i]
            THEN /\ c = <<row>>
                 /\ which = [i \in DOMAIN hit |-> <<hit[i]>>]
                 /\ Last(weights) =
                        [i \in 1..n_subsets |-> Contribution(qs, i, row)]
                 /\ Len(lin_emb_pieces) = Len(weights)
                 /\ ~skip_rbf => Len(rff_emb_pieces) = Len(weights)
                 /\ \A enc \in {FileFeatures(<<row>>)[1]} :
                    \A ang \in {Angles(<<enc>>, freqs[1])[1]} :
                    \A i \in 1..n_subsets :
                        Contribution(qs, i, row) # 0 =>
                            /\ \A j \in 1..n_feats :
                                   Last(lin_emb_pieces)[j][i] = enc[j]
                            /\ ~skip_rbf =>
                                   \A j \in 1..n_freqs :
                                       /\ Last(rff_emb_pieces)[j][i] =
                                              Sin(ang[j])
                                       /\ Last(rff_emb_pieces)[n_freqs + j][i] =
                                              Cos(ang[j])
                 /\ chunksize = 1 =>
                        \A i \in 1..n_subsets :
                            total_weights[i] =
                                PrefixWeight(qs, files[file_idx], pos, i)
            ELSE c = <<>>

\* A file's second chunk held one record of weight 1 that a query selects,
\* the record was counted, and the sine of its angle entered the chunk's RFF
\* embedding.
C9_Witness ==
    /\ pc = "chunk"
    /\ Len(c_read) = 1
    /\ pos = 2
    /\ Len(weights) = 2
    /\ c = c_read
    /\ ~skip_rbf
    /\ Len(rff_emb_pieces) = 2
    /\ \E i \in 1..n_subsets :
          /\ Last(weights)[i] = 1 /\ total_weights[i] = 2
          /\ Last(rff_emb_pieces)[1][i] # Zero

\* --- get_embeddings under every combination of its options ---
\* the statistics of three records
CtlStats(std) == EmbStats(std, Len(Sample))

\* no file; one file of two records; that file and one of one record (as
\* many records as n_total); the file twice (more records than n_total); one
\* file of one record that no query of ControlSubsets selects
ControlFiles ==
    LET f1 == <<Record(Int2X(2), NaN, "a", "a", 1), Record(Int2X(0), NaN, "b", "a", 2)>>
        f2 == <<Record(Int2X(2), NaN, "b", "a", 1)>>
        f3 == <<Record(Int2X(0), NaN, "b", "a", 0)>>
    IN  {<<>>, <<f1>>, <<f1, f2>>, <<f1, f1>>, <<f3>>}

\* subset expressions: None, one query, two queries, with and without a
\* trailing comma and trailing white space
ControlSubsets ==
    {<<>>,
     <<QAge>>,
     <<QAge \o <<",">>>>,
     <<QAge \o <<"\t">>>>,
     <<QSex \o <<",", " ">> \o QAge>>,
     <<QSex \o <<",">> \o QAge \o <<",">>>>,
     <<QSex \o <<",">> \o QAge \o <<",", "\n">>>>}

\* the options of the call, the frequencies supplied or drawn from the
\* global generator
InitOptions ==
    /\ files \in ControlFiles
    /\ stats \in {CtlStats(0), CtlStats(1)}
    /\ n_freqs = 2
    /\ skip_feats \in {{}, {"AGEP"}}
    /\ skip_alloc_flags \in BOOLEAN
    /\ freqs \in {<<>>,
                  <<SuppliedFreqs(_num_feats(stats,
                        skip_feats \cup (IF skip_alloc_flags
                                         THEN Range(alloc_flags) ELSE {})))>>}
    /\ bandwidth \in {<<>>, <<[sqrt_of |-> Int2X(4)]>>}
    /\ chunksize \in {1, 2}
    /\ skip_rbf \in BOOLEAN
    /\ seed = <<>>
    /\ rff_orthogonal = TRUE
    /\ mtrand = NoSeededCall
    /\ subsets \in ControlSubsets
    /\ squeeze_queries \in BOOLEAN

\* the options of the sampler, on the calls that reach the resolution of the
\* frequencies: two files, two queries; the reference sample may be empty
InitSampler ==
    /\ files \in {fs \in ControlFiles : Len(fs) = 2}
    /\ stats \in {CtlStats(0), CtlStats(1),
                  [CtlStats(1) EXCEPT !.sample = <<>>]}
    /\ n_freqs = 2
    /\ skip_feats \in {{}, {"AGEP"}}
    /\ skip_alloc_flags \in BOOLEAN
    /\ freqs = <<>>
    /\ bandwidth \in {<<>>, <<[sqrt_of |-> Int2X(4)]>>}
    /\ chunksize = 2
    /\ skip_rbf = FALSE
    /\ seed \in {<<>>} \cup {<<s>> : s \in Seeds}
    /\ rff_orthogonal \in BOOLEAN
    /\ mtrand \in [Seeds -> Streams(MaxDraws)]
    /\ subsets = <<QSex \o <<",">> \o QAge \o <<",">>>>
    /\ squeeze_queries = TRUE

InitCtl ==
    /\ InitOptions \/ InitSampler
    /\ caller = [freqs |-> freqs, bandwidth |-> bandwidth]
    /\ df = <<>>
    /\ Locals
    /\ pc = "start"

SpecCtl == InitCtl /\ [][Next]_vars

\* ===========================================================================
\* Properties of get_embeddings under its options (specification SpecCtl).
\* ===========================================================================
\* the subset expression has been parsed (lines 187-191 have run)
Started == pc \in {"file", "chunk", "done", "failed"} /\ n_subsets >= 1

\* the queries the caller wrote: the non-empty comma-separated pieces
WrittenQueries(s) ==
    SelectSeq(Split(Scan(s, 1, FALSE)), LAMBDA piece : piece # <<>>)

\* C5: subset-query parsing tolerates a trailing separator.  Once the
\* expression is parsed, the query count is the number of queries written,
\* the expression handed to the evaluator is a well-formed tuple of that many
\* queries, and a single query is followed by exactly one comma.
C5_TrailingSeparatorTolerated ==
    Started =>
        /\ n_subsets = Len(WrittenQueries(subsets[1]))
        /\ Parse(subsets[1]).status = "tuple"
        /\ Len(Parse(subsets[1]).elements) = n_subsets
        /\ n_subsets = 1 => Count(subsets[1], ",") = 1

\* the elements of the returned tuple
Returned == Range(result[1].tuple)

\* C6, as claimed: the frequency matrix, the bandwidth and the feature names
\* are returned only if the frequencies were computed inside the call.
C6_ExtrasOnlyIfComputed ==
    pc = "done" =>
        /\ {"emb_lin", "region_weights"} \subseteq Returned
        /\ "emb_rff" \in Returned <=> ~skip_rbf
        /\ \A x \in {"freqs", "bandwidth", "feat_names"} :
               x \in Returned <=> freqs_calls = 1

\* the names of the encoded columns, in order
EncodedNames ==
    KeptRealFeats(skip_feats)
    \o Flatten([m \in DOMAIN KeptDiscreteFeats(skip_feats) |->
                   BlockNames(stats, KeptDiscreteFeats(skip_feats)[m])])

\* some record of some file satisfies some query
SomeRecordSelected ==
    \E f \in DOMAIN files : Selected(Queries, files[f]) # <<>>

\* C6, amended: the result is the tuple (emb_lin, region_weights, feat_names)
\* when RFF is skipped and (emb_lin, emb_rff, region_weights, freqs,
\* bandwidth, feat_names) otherwise, in this order.  The frequency matrix is
\* the one every chunk was embedded with: the caller's if one was supplied,
\* else a matrix the sampler draws for the bandwidth returned.  The bandwidth
\* is the caller's if a frequency matrix or a bandwidth was supplied (None if
\* the matrix came without one), else the value of the selector.  The
\* feature names are the ordered names of the encoded columns if some record
\* of some file satisfies a query, else None.
C6_ResultShape ==
    pc = "done" =>
        \A r \in {result[1]} :
            /\ r.tuple =
                   (IF skip_rbf
                    THEN <<"emb_lin", "region_weights", "feat_names">>
                    ELSE <<"emb_lin", "emb_rff", "region_weights", "freqs",
                           "bandwidth", "feat_names">>)
            /\ ~skip_rbf =>
                   /\ r.freqs # <<>>
                   /\ freqs_used \subseteq {r.freqs[1]}
                   /\ SomeRecordSelected => freqs_used = {r.freqs[1]}
                   /\ IF caller.freqs # <<>>
                      THEN /\ r.freqs = caller.freqs
                           /\ r.bandwidth = caller.bandwidth
                      ELSE /\ r.bandwidth # <<>>
                           /\ r.bandwidth =
                                  (IF caller.bandwidth # <<>>
                                   THEN caller.bandwidth
                                   ELSE pick_gaussian_bandwidth(
                                            stats, skip_feats).bandwidth)
                           /\ r.freqs[1] \in
                                  pick_rff_freqs(n_freqs, r.bandwidth[1], seed,
                                                 <<n_feats>>, rff_orthogonal,
                                                 <<>>, {})
            /\ r.feat_names =
                   (IF SomeRecordSelected THEN <<EncodedNames>> ELSE <<>>)

\* A call with a supplied frequency matrix and no bandwidth embedded its
\* chunks with that matrix and returned it, None as the bandwidth, and the
\* feature names.
C6_Witness ==
    /\ pc = "done"
    /\ ~skip_rbf
    /\ freqs_calls = 0
    /\ caller.freqs # <<>>
    /\ caller.bandwidth = <<>>
    /\ result[1].tuple[4] = "freqs"
    /\ result[1].freqs = caller.freqs
    /\ freqs_used = {caller.freqs[1]}
    /\ result[1].bandwidth = <<>>
    /\ result[1].feat_names = <<EncodedNames>>
    /\ Len(EncodedNames) = n_feats

\* a call on a file that holds a record, none of them selected, returned
\* None as the feature names
NamesNoneOnNonEmptyFile ==
    /\ pc = "done"
    /\ \E f \in DOMAIN files : files[f] # <<>>
    /\ ~SomeRecordSelected
    /\ result[1].feat_names = <<>>

\* the number of axes of a returned array, and that its data has that depth
Axes(a) == Len(a.shape)

IsValue(x) == x.k \in {"fin", "nan", "pinf", "ninf"}

\* C7: subset squeeze.  With one query written and squeeze enabled the
\* returned arrays have no query axis; otherwise they end in a query axis as
\* long as the number of queries written.
C7_SubsetSqueeze ==
    pc = "done" =>
        LET r == result[1]
            q == Len(WrittenQueries(subsets[1]))
        IN  IF squeeze_queries /\ q = 1
            THEN /\ r.emb_lin.shape = <<Len(files), n_feats>>
                 /\ r.region_weights.shape = <<Len(files)>>
                 /\ ~skip_rbf => r.emb_rff.shape = <<Len(files), 2 * n_freqs>>
                 /\ \A f \in DOMAIN files :
                        /\ IsValue(r.region_weights.data[f])
                        /\ \A j \in 1..n_feats : IsValue(r.emb_lin.data[f][j])
                        /\ ~skip_rbf =>
                               \A j \in 1..(2 * n_freqs) :
                                   IsValue(r.emb_rff.data[f][j])
            ELSE /\ r.emb_lin.shape = <<Len(files), n_feats, q>>
                 /\ r.region_weights.shape = <<Len(files), q>>
                 /\ ~skip_rbf => r.emb_rff.shape = <<Len(files), 2 * n_freqs, q>>
                 /\ \A f \in DOMAIN files :
                        /\ Len(r.region_weights.data[f]) = q
                        /\ \A j \in 1..n_feats : Len(r.emb_lin.data[f][j]) = q
                        /\ ~skip_rbf =>
                               \A j \in 1..(2 * n_freqs) :
                                   Len(r.emb_rff.data[f][j]) = q

\* A call with one query and squeeze enabled returned arrays without the
\* query axis for two files.
C7_Witness ==
    /\ pc = "done"
    /\ squeeze_queries
    /\ n_subsets = 1
    /\ ~skip_rbf
    /\ Len(files) = 2
    /\ Axes(result[1].emb_lin) = 2
    /\ Axes(result[1].emb_rff) = 2
    /\ Axes(result[1].region_weights) = 1

\* C10: the bandwidth and the frequencies are resolved at most once, before
\* any chunk is read.  A step that runs the bandwidth selector starts from
\* the beginning of the call with RFF requested and neither a frequency
\* matrix nor a bandwidth given, and is the selector's first run; a step that
\* runs the frequency sampler starts from the beginning of the call with RFF
\* requested and no frequency matrix given, and is the sampler's first run;
\* neither runs when RFF is skipped; after the beginning the frequency matrix
\* never changes, and every chunk is embedded with it.
C10_ResolvedOnceBeforeChunks ==
    [][/\ bandwidth_calls' # bandwidth_calls =>
              /\ pc = "start" /\ read = 0 /\ file_idx = 0
              /\ ~skip_rbf /\ freqs = <<>> /\ bandwidth = <<>>
              /\ bandwidth_calls = 0 /\ bandwidth_calls' = 1
       /\ freqs_calls' # freqs_calls =>
              /\ pc = "start" /\ read = 0 /\ file_idx = 0
              /\ ~skip_rbf /\ freqs = <<>>
              /\ freqs_calls = 0 /\ freqs_calls' = 1
       /\ pc # "start" => (freqs' = freqs /\ bandwidth' = bandwidth)
       /\ read' # read => (pc = "chunk" /\ freqs' = freqs)
       /\ freqs_used' # freqs_used => freqs_used' = {freqs[1]}
      ]_vars

\* Both were resolved inside the call, and the chunks of two files were
\* embedded with the one matrix.
C10_Witness ==
    /\ pc = "done"
    /\ bandwidth_calls = 1
    /\ freqs_calls = 1
    /\ Len(files) = 2
    /\ read = 3
    /\ freqs_used = {freqs[1]}

\* ===========================================================================
\* Properties of the encoder (specification SpecEnc).
\* ===========================================================================
Encoded == pc = "enc_done" /\ encoded.status = "ok"

\* the standardization of a real feature before NaN is replaced
Standardized(row, j) ==
    XDiv(XSub(row[KeptRealFeats(skip_feats)[j]], Values(stats.real_means)[j]),
         Values(stats.real_stds)[j])

\* C8: real-feature standardization leaves no non-finite value.  Every entry
\* of the real columns is (value - mean) / std if that is finite, else 0.
C8_RealColumnsFinite ==
    Encoded =>
        \A r \in DOMAIN df : \A j \in DOMAIN KeptRealFeats(skip_feats) :
            /\ IsFinite(encoded.out[r][j])
            /\ encoded.out[r][j] =
                   (IF IsFinite(Standardized(df[r], j))
                    THEN Standardized(df[r], j) ELSE Zero)

\* C3: column count determinism.  get_dummies completes on a non-empty batch
\* and fills exactly _num_feats(stats, skip_feats) columns.
C3_ColumnCount ==
    pc = "enc_done" =>
        /\ encoded.status = "ok"
        /\ \A r \in DOMAIN df : Len(encoded.out[r]) = num_feats[1]

\* the columns of the m-th kept discrete feature in an encoded row
Block(row, m) ==
    SubSeq(row, StartCol(stats, skip_feats, m - 1) + 1,
           StartCol(stats, skip_feats, m))

\* the block the encoding round trip asks for: a single 1 at the position of
\* the value's category; for a value that is no stored category a single 1
\* in the overflow column if there is one, else all 0
ExpectedBlock(k, v) ==
    LET cats == Index(stats.value_counts[k])
        n == Len(cats) + (IF HasOverflow(stats, k) THEN 1 ELSE 0)
        hot == IF v \in Range(cats) THEN IndexOf(cats, v) + 1
               ELSE IF HasOverflow(stats, k) THEN n
               ELSE 0
    IN  [i \in 1..n |-> IF i = hot THEN One ELSE Zero]

\* C2: one-hot encoding.  The block of every kept discrete feature or
\* allocation flag of every record is the expected block.
C2_OneHot ==
    Encoded =>
        \A r \in DOMAIN df : \A m \in DOMAIN KeptDiscreteFeats(skip_feats) :
            Block(encoded.out[r], m) =
                ExpectedBlock(KeptDiscreteFeats(skip_feats)[m],
                              df[r][KeptDiscreteFeats(skip_feats)[m]])

====
